---- MODULE Spec2Model ----
(***************************************************************************)
(* A model of scripts/pull_cards.py: the card-table scraper.               *)
(*                                                                         *)
(* Text is modelled as a sequence of one-character strings, so that the    *)
(* regular expressions and string methods of the script are computed       *)
(* character by character, as Python computes them.                        *)
(***************************************************************************)
EXTENDS Integers, Sequences, FiniteSets, TLC

VARIABLES
    name_text, name_out, npc,          \* parse_name: argument, result, position
    first_skill, skill_out, spc,       \* skill-string parser: argument, result, position
    files,                             \* the paths that exist under the icon directory
    fetch_log,                         \* the icon requests sent so far, with their outcome
    dl_calls,                          \* the calls of download_icon made so far
    doc,                               \* the tables of the fetched page, in document order
    pc,                                \* where main is
    ti,                                \* the table get_cards_table_soup looks at
    selected,                          \* the table it returned (0: none)
    idx,                               \* main's mapping from header to column index
    rows,                              \* the rows main iterates over
    ri,                                \* the row it is at
    records,                           \* the records appended so far
    row_log,                           \* what became of each row handled so far
    csv,                               \* the rows written to the CSV file
    date_updated,                      \* whether index.html got the new date
    error                              \* the exception that ended the run

nameVars == <<name_text, name_out, npc>>
skillVars == <<first_skill, skill_out, spc>>
diskVars == <<files, fetch_log>>
mainVars == <<doc, pc, ti, selected, idx, rows, ri, records, row_log, csv,
              date_updated, error>>
vars == <<nameVars, skillVars, diskVars, dl_calls, mainVars>>

\* a part of the program that a specification does not run
NameIdle ==
    /\ name_text = <<>>
    /\ name_out = <<>>
    /\ npc = "idle"

SkillIdle ==
    /\ first_skill = <<>>
    /\ skill_out = <<>>
    /\ spc = "idle"

DownloadIdle ==
    /\ files = {}
    /\ fetch_log = <<>>
    /\ dl_calls = <<>>

NoError == [kind |-> "none", at |-> "none"]

Unwritten == "unwritten"

MainIdle ==
    /\ doc = <<>>
    /\ pc = "idle"
    /\ ti = 0
    /\ selected = 0
    /\ idx = <<>>
    /\ rows = <<>>
    /\ ri = 0
    /\ records = <<>>
    /\ row_log = <<>>
    /\ csv = Unwritten
    /\ date_updated = FALSE
    /\ error = NoError

(***************************************************************************)
(* Bounds of the model.                                                    *)
(***************************************************************************)
MaxNameLen == 5
MaxSkillLen == 6
MaxSkillPieces == 4
MaxCalls == 2
MaxTables == 2
MaxRows == 2
MaxDocTables == 2

(***************************************************************************)
(* Text helpers: Python's str and re primitives.                           *)
(***************************************************************************)
QUOTE == "\""

\* \s of the re module, restricted to the whitespace the model draws
IsSpace(c) == c \in {" ", "\n"}

\* s[a..b] as Python's s[a-1:b]; empty when b < a
Slice(s, a, b) == IF b < a THEN <<>> ELSE SubSeq(s, a, b)

\* str.strip(): leading and trailing whitespace removed
RECURSIVE LStrip(_)
LStrip(s) ==
    IF s # <<>> /\ IsSpace(Head(s)) THEN LStrip(Tail(s)) ELSE s

RECURSIVE RStrip(_)
RStrip(s) ==
    IF s # <<>> /\ IsSpace(s[Len(s)]) THEN RStrip(Slice(s, 1, Len(s) - 1)) ELSE s

Strip(s) == LStrip(RStrip(s))

\* positions of character c in s
Positions(s, c) == {i \in 1..Len(s) : s[i] = c}

SetMin(S) == CHOOSE x \in S : \A y \in S : x <= y
SetMax(S) == CHOOSE x \in S : \A y \in S : x >= y

\* '.' of the re module (no DOTALL): any character but a newline
NoNewline(s) == \A i \in 1..Len(s) : s[i] # "\n"

(***************************************************************************)
(* parse_name                                                              *)
(***************************************************************************)
\* the position of the final quote that '"$' can match: the last character,
\* or the one before a trailing newline; 0 when there is none
FinalQuotePos(s) ==
    IF Len(s) >= 1 /\ s[Len(s)] = QUOTE THEN Len(s)
    ELSE IF Len(s) >= 2 /\ s[Len(s)] = "\n" /\ s[Len(s) - 1] = QUOTE THEN Len(s) - 1
    ELSE 0

\* end of the whitespace run that starts at position a (a - 1 when s[a] is no space)
RECURSIVE SpaceRunEnd(_, _)
SpaceRunEnd(s, a) ==
    IF a <= Len(s) /\ IsSpace(s[a]) THEN SpaceRunEnd(s, a + 1) ELSE a - 1

\* re.search(r'^(.*?)\s+"(.*?)"$', s) succeeds with group 1 = s[1..i]
NameMatchAt(s, i) ==
    LET j == SpaceRunEnd(s, i + 1)
        k == FinalQuotePos(s)
    IN  /\ NoNewline(Slice(s, 1, i))
        /\ j > i
        /\ j + 1 <= Len(s)
        /\ s[j + 1] = QUOTE
        /\ k > j + 1
        /\ NoNewline(Slice(s, j + 2, k - 1))

NameMatchStarts(s) == {i \in 0..Len(s) : NameMatchAt(s, i)}

\* re.split(r'"', s): the pieces between the quotes
RECURSIVE SplitQuote(_)
SplitQuote(s) ==
    IF Positions(s, QUOTE) = {} THEN <<s>>
    ELSE LET p == SetMin(Positions(s, QUOTE))
         IN  <<Slice(s, 1, p - 1)>> \o SplitQuote(Slice(s, p + 1, Len(s)))

parse_name(s) ==
    IF NameMatchStarts(s) # {}
    THEN LET i == SetMin(NameMatchStarts(s))    \* (.*?) is lazy: shortest group 1
             j == SpaceRunEnd(s, i + 1)
             k == FinalQuotePos(s)
         IN  <<Slice(s, 1, i), Slice(s, j + 2, k - 1)>>
    ELSE LET parts == SplitQuote(s)
         IN  <<Strip(parts[1]), IF Len(parts) > 1 THEN Strip(parts[2]) ELSE <<>>>>

(***************************************************************************)
(* Skill-string parser                                                     *)
(***************************************************************************)
GreekLetters == {"α", "β", "γ"}

Digits == {"0", "1", "2", "3", "4", "5", "6", "7", "8", "9"}

AsciiLetters ==
    {"a","b","c","d","e","f","g","h","i","j","k","l","m","n","o","p","q","r",
     "s","t","u","v","w","x","y","z","A","B","C","D","E","F","G","H","I","J",
     "K","L","M","N","O","P","Q","R","S","T","U","V","W","X","Y","Z"}

\* str.split(): the maximal runs of non-whitespace, in order
RECURSIVE split(_)
split(s) ==
    LET t == LStrip(s)
    IN  IF t = <<>> THEN <<>>
        ELSE LET sp == {i \in 1..Len(t) : IsSpace(t[i])}
                 e == IF sp = {} THEN Len(t) ELSE SetMin(sp) - 1
             IN  <<Slice(t, 1, e)>> \o split(Slice(t, e + 1, Len(t)))

RomanTokens == {<<"I">>, <<"I","I">>, <<"I","I","I">>}

roman_to_num(part) == Len(part)

greek_to_turns(part) ==
    CASE part = <<"α">> -> 1
      [] part = <<"β">> -> 2
      [] part = <<"γ">> -> 3

\* the first loop of extract_first_skill_display_name: break at the first match
RECURSIVE FindTier(_)
FindTier(parts) ==
    IF parts = <<>> THEN 0
    ELSE IF Head(parts) \in RomanTokens THEN roman_to_num(Head(parts))
    ELSE FindTier(Tail(parts))

\* the second loop: break at the first Greek-letter token
RECURSIVE FindTurns(_)
FindTurns(parts) ==
    IF parts = <<>> THEN 0
    ELSE IF Len(Head(parts)) = 1 /\ Head(parts)[1] \in GreekLetters
         THEN greek_to_turns(Head(parts))
    ELSE FindTurns(Tail(parts))

\* str(n) for the numbers a tier or a turn count can be
DigitChar(n) ==
    CASE n = 0 -> "0" [] n = 1 -> "1" [] n = 2 -> "2" [] n = 3 -> "3"

\* FormatDisplay with the plural decided by turns > 0
FormatDisplayPlural(tier, turns) ==
    IF turns > 0
    THEN <<"T","i","e","r","=", DigitChar(tier), " ", "(", DigitChar(turns),
           " ", "T","u","r","n">>
         \o (IF turns > 0 THEN <<"s">> ELSE <<>>) \o <<")">>
    ELSE <<"T","i","e","r","=", DigitChar(tier)>>

\* the two f-strings that build the display string
FormatDisplay(tier, turns) ==
    IF turns > 0
    THEN <<"T","i","e","r","=", DigitChar(tier), " ", "(", DigitChar(turns),
           " ", "T","u","r","n">>
         \o (IF turns > 1 THEN <<"s">> ELSE <<>>) \o <<")">>
    ELSE <<"T","i","e","r","=", DigitChar(tier)>>

extract_first_skill_display_name(s) ==
    IF s = <<>> THEN <<>>
    ELSE LET skill_parts == split(s)
         IN  FormatDisplay(FindTier(skill_parts), FindTurns(skill_parts))

\* end of the run of characters of class cls that starts at a, at most max long
RECURSIVE RunEnd(_, _, _, _)
RunEnd(s, a, cls, max) ==
    IF max > 0 /\ a <= Len(s) /\ s[a] \in cls
    THEN RunEnd(s, a + 1, cls, max - 1) ELSE a - 1

IsSpecial(c) == c \notin AsciiLetters /\ c \notin Digits /\ ~IsSpace(c)

RECURSIVE SpecialRunEnd(_, _)
SpecialRunEnd(s, a) ==
    IF a <= Len(s) /\ IsSpecial(s[a]) THEN SpecialRunEnd(s, a + 1) ELSE a - 1

\* The end of the match of pattern pat that starts at position p of s, or 0.
\*   "tier"    \s+I{1,3}\s*          "greek"   \s*[αβγ]\s*
\*   "lv"      \s*Lv\.\s*\d+\s*      "ws"      \s+
\*   "special" [^a-zA-Z0-9\s]+
MatchEnd(pat, s, p) ==
    LET j == SpaceRunEnd(s, p)
    IN  CASE pat = "tier" ->
               LET m == RunEnd(s, j + 1, {"I"}, 3)
               IN  IF j >= p /\ m > j THEN SpaceRunEnd(s, m + 1) ELSE 0
          [] pat = "greek" ->
               IF j + 1 <= Len(s) /\ s[j + 1] \in GreekLetters
               THEN SpaceRunEnd(s, j + 2) ELSE 0
          [] pat = "lv" ->
               IF j + 3 <= Len(s) /\ Slice(s, j + 1, j + 3) = <<"L", "v", ".">>
               THEN LET k == SpaceRunEnd(s, j + 4)
                        d == RunEnd(s, k + 1, Digits, Len(s))
                    IN  IF d > k THEN SpaceRunEnd(s, d + 1) ELSE 0
               ELSE 0
          [] pat = "ws" -> IF j >= p THEN j ELSE 0
          [] pat = "special" ->
               LET e == SpecialRunEnd(s, p) IN IF e >= p THEN e ELSE 0

\* re.sub(pat, repl, s) from position p on: leftmost matches, left to right
RECURSIVE ReSub(_, _, _, _)
ReSub(pat, repl, s, p) ==
    IF p > Len(s) THEN <<>>
    ELSE LET e == MatchEnd(pat, s, p)
         IN  IF e > 0 THEN repl \o ReSub(pat, repl, s, e + 1)
             ELSE <<s[p]>> \o ReSub(pat, repl, s, p + 1)

SkillIconDir ==
    <<"d","a","t","a","/","s","k","i","l","l","_","i","c","o","n","s","/">>

IconSuffix == <<"_","i","c","o","n",".","p","n","g">>

extract_first_skill_icon(s) ==
    IF s = <<>> THEN <<>>
    ELSE LET n1 == ReSub("tier", <<" ">>, s, 1)
             n2 == ReSub("greek", <<" ">>, n1, 1)
             n3 == ReSub("lv", <<" ">>, n2, 1)
             n4 == Strip(ReSub("ws", <<" ">>, n3, 1))
             f1 == ReSub("special", <<>>, n4, 1)
             f2 == ReSub("ws", <<"_">>, f1, 1)
         IN  SkillIconDir \o f2 \o IconSuffix

(***************************************************************************)
(* Specifications of the skill-string parser over bounded labels.          *)
(***************************************************************************)
PreemptiveStrikeIII ==
    <<"P","r","e","e","m","p","t","i","v","e"," ","S","t","r","i","k","e"," ",
      "I","I","I">>

BaitAndLure ==
    <<"B","a","i","t"," ","&"," ","L","u","r","e"," ","γ"," ","I">>

IndirectApproach ==
    <<"I","n","d","i","r","e","c","t"," ","A","p","p","r","o","a","c","h"," ",
      "α"," ","I","I">>

SkillExamples == {PreemptiveStrikeIII, BaitAndLure, IndirectApproach}

\* (the examples bring the third Greek letter)
DisplayAlphabet == {"a", "I", " ", "α", "β"}

DisplayInputs ==
    UNION {[1..n -> DisplayAlphabet] : n \in 0..MaxSkillLen} \cup SkillExamples

\* labels for the icon path: up to MaxSkillPieces pieces, concatenated
SkillPieces ==
    {<<"a">>, <<"I">>, <<"I","n">>, <<" ">>, <<"γ">>, <<"&">>,
     <<"L","v",".">>, <<"3">>}

RECURSIVE Concat(_)
Concat(ps) == IF ps = <<>> THEN <<>> ELSE Head(ps) \o Concat(Tail(ps))

IconInputs ==
    {Concat(ps) : ps \in UNION {[1..n -> SkillPieces] : n \in 0..MaxSkillPieces}}
        \cup SkillExamples

DisplayInit ==
    /\ first_skill \in DisplayInputs
    /\ skill_out = <<>>
    /\ spc = "input"
    /\ NameIdle
    /\ DownloadIdle
    /\ MainIdle

ExtractDisplay ==
    /\ spc = "input"
    /\ skill_out' = extract_first_skill_display_name(first_skill)
    /\ spc' = "display"
    /\ UNCHANGED <<first_skill, nameVars, diskVars, dl_calls, mainVars>>

SpecDisplay == DisplayInit /\ [][ExtractDisplay]_vars

IconInit ==
    /\ first_skill \in IconInputs
    /\ skill_out = <<>>
    /\ spc = "input"
    /\ NameIdle
    /\ DownloadIdle
    /\ MainIdle

ExtractIcon ==
    /\ spc = "input"
    /\ skill_out' = extract_first_skill_icon(first_skill)
    /\ spc' = "icon"
    /\ UNCHANGED <<first_skill, nameVars, diskVars, dl_calls, mainVars>>

SpecSkillIcon == IconInit /\ [][ExtractIcon]_vars

(***************************************************************************)
(* download_icon                                                           *)
(***************************************************************************)
IMG_DIR == <<"d","a","t","a","/","i","c","o","n","s">>

\* sub in s
Contains(s, sub) ==
    \E i \in 1..(Len(s) - Len(sub) + 1) : Slice(s, i, i + Len(sub) - 1) = sub

\* s.replace(old, new): every occurrence, leftmost first, not overlapping
RECURSIVE Replace(_, _, _)
Replace(s, old, new) ==
    IF Len(s) < Len(old) THEN s
    ELSE IF Slice(s, 1, Len(old)) = old
         THEN new \o Replace(Slice(s, Len(old) + 1, Len(s)), old, new)
    ELSE <<Head(s)>> \o Replace(Tail(s), old, new)

\* os.path.join(IMG_DIR, filename)
PathJoin(dir, filename) ==
    IF filename # <<>> /\ Head(filename) = "/" THEN filename
    ELSE dir \o <<"/">> \o filename

\* lines 160-162: ask for a small rendition unless a width is given
WithWidth(img_url) ==
    IF Contains(img_url, <<"w","i","d","t","h","=">>) THEN img_url
    ELSE img_url \o (IF Contains(img_url, <<"?">>) THEN <<"&">> ELSE <<"?">>)
                 \o <<"w","i","d","t","h","=","5","0">>

\* lines 165-166
LocalPath(filename) == Replace(PathJoin(IMG_DIR, filename), <<"_","p","n","g">>, <<".","p","n","g">>)

\* what requests.get can do: answer with an OK status, answer with an error
\* status, or raise (no connection, or the 30 s timeout)
NetOutcomes == {"ok", "http_error", "connection_error", "timeout"}

NetRaises(net) == net \in {"connection_error", "timeout"}

\* Python's None: no sequence of characters
None == <<"None">>

\* download_icon(img_url, filename) when the network does net and the paths in
\* fs exist: the request it sends, whether it raises, what it returns and the
\* paths that exist afterwards
download_icon(img_url, filename, net, fs) ==
    LET path == LocalPath(filename)
    IN  [request |-> WithWidth(img_url),
         raised  |-> NetRaises(net),
         ret     |-> IF net = "ok" THEN path ELSE None,
         fs      |-> IF net = "ok" /\ path \notin fs THEN fs \cup {path} ELSE fs]

(***************************************************************************)
(* Specification of download_icon: calls with any arguments, over an icon  *)
(* directory that persists from call to call.                              *)
(***************************************************************************)
IconUrls ==
    {<<"h","t","t","p","s",":","/","/","t","o","t",".","w","i","k","i","/","i","/","A",".","p","n","g">>,
     <<"h","t","t","p","s",":","/","/","t","o","t",".","w","i","k","i","/","i","/","A",".","p","n","g","?","v","=","2">>,
     <<"h","t","t","p","s",":","/","/","t","o","t",".","w","i","k","i","/","i","/","b",".","p","n","g","?","w","i","d","t","h","=","9">>}

IconFilenames == {<<"A","_","b","_","p","n","g">>, <<"b","_","A","_","p","n","g">>, <<"A","_","b",".","p","n","g">>}

DownloadInit ==
    /\ files \in SUBSET {LocalPath(f) : f \in IconFilenames}
    /\ fetch_log = <<>>
    /\ dl_calls = <<>>
    /\ NameIdle
    /\ SkillIdle
    /\ MainIdle

\* one call of download_icon; a call that raises leaves its caller without a
\* return value
CallDownloadIcon ==
    /\ Len(dl_calls) < MaxCalls
    /\ \E img_url \in IconUrls, filename \in IconFilenames, net \in NetOutcomes :
         \E r \in {download_icon(img_url, filename, net, files)} :
             /\ files' = r.fs
             /\ fetch_log' = Append(fetch_log, [url |-> r.request, net |-> net])
             /\ dl_calls' = Append(dl_calls,
                    [img_url |-> img_url, filename |-> filename,
                     existed |-> LocalPath(filename) \in files,
                     fetches |-> Len(fetch_log') - Len(fetch_log),
                     raised |-> r.raised,
                     ret |-> IF r.raised THEN None ELSE r.ret])
    /\ UNCHANGED <<nameVars, skillVars, mainVars>>

SpecDownload == DownloadInit /\ [][CallDownloadIcon]_vars

(***************************************************************************)
(* The page: tables, their sections, rows and cells                        *)
(*                                                                         *)
(* A table is the sequence of its sections in document order: a thead, a   *)
(* tbody, or a run of rows that sit directly under the table ("table").    *)
(* A row is the sequence of its cells. A th cell carries its text, a td    *)
(* cell its text nodes, its first image and the text of its b elements.    *)
(***************************************************************************)
NoImg == [src |-> <<>>, alt |-> <<>>]

\* a header cell; its text is drawn without surrounding whitespace, so that
\* get_text(strip=True) returns it as it is
Th(h) == [tag |-> "th", text |-> h, strings |-> <<>>, img |-> NoImg, bold |-> <<>>]

Td(strings, img, bold) ==
    [tag |-> "td", text |-> "", strings |-> strings, img |-> img, bold |-> bold]

Range(f) == {f[i] : i \in DOMAIN f}

RECURSIVE Flatten(_)
Flatten(ss) == IF ss = <<>> THEN <<>> ELSE Head(ss) \o Flatten(Tail(ss))

IsThead(sec) == sec.kind = "thead"
IsTbody(sec) == sec.kind = "tbody"
IsTh(cell) == cell.tag = "th"
IsTd(cell) == cell.tag = "td"

\* table.select("tr"): every row of the table, in document order
select_tr(table) == Flatten([i \in 1..Len(table) |-> table[i].rows])

\* [th.get_text(strip=True) for th in row.select("th")]
ThTexts(row) ==
    LET ths == SelectSeq(row, IsTh) IN [i \in 1..Len(ths) |-> ths[i].text]

\* the th texts of all the rows of a sequence of sections
SectionThTexts(secs) ==
    Flatten([i \in 1..Len(secs) |-> Flatten([j \in 1..Len(secs[i].rows) |->
                                                 ThTexts(secs[i].rows[j])])])

(***************************************************************************)
(* get_cards_table_soup                                                    *)
(***************************************************************************)
required ==
    {"Name", "Rarity", "Attribute", "Max Influence", "Max Defense", "Max Skill(s)"}

\* lines 24-41: the headers the locator discovers for a table
locator_headers(table) ==
    LET theads == SelectSeq(table, IsThead)
        tbodies == SelectSeq(table, IsTbody)
        h1 == IF theads # <<>> THEN SectionThTexts(<<theads[1]>>) ELSE <<>>
        h2 == IF h1 # <<>> THEN h1
              ELSE IF tbodies # <<>> /\ tbodies[1].rows # <<>>
                   THEN ThTexts(tbodies[1].rows[1]) ELSE <<>>
        h3 == IF h2 # <<>> THEN h2
              ELSE IF select_tr(table) # <<>>
                   THEN ThTexts(select_tr(table)[1]) ELSE <<>>
    IN  h3

\* table_matches with the subset test the wrong way round
table_matches_reversed(table) ==
    locator_headers(table) # <<>> /\ Range(locator_headers(table)) \subseteq required

\* line 43
table_matches(table) ==
    locator_headers(table) # <<>> /\ required \subseteq Range(locator_headers(table))

(***************************************************************************)
(* The helpers of main                                                     *)
(***************************************************************************)
\* " ".join(s.strip() for s in cell.stripped_strings)
RECURSIVE JoinSpace(_)
JoinSpace(ss) ==
    IF ss = <<>> THEN <<>>
    ELSE IF Len(ss) = 1 THEN Head(ss)
    ELSE Head(ss) \o <<" ">> \o JoinSpace(Tail(ss))

NonEmptyText(t) == t # <<>>

extract_text(cell) ==
    JoinSpace(SelectSeq([i \in 1..Len(cell.strings) |-> Strip(cell.strings[i])],
                        NonEmptyText))

rarity_from_cell(td) ==
    IF td.img # NoImg /\ td.img.alt # <<>> THEN Strip(td.img.alt)
    ELSE extract_text(td)

extract_first_skill(skills_cell) ==
    IF skills_cell.bold # <<>> THEN Strip(skills_cell.bold[1]) ELSE <<>>

\* lines 208-214: the headers main discovers for the table it was given
main_headers(table) ==
    LET h1 == SectionThTexts(SelectSeq(table, IsThead))
    IN  IF h1 # <<>> THEN h1
        ELSE IF select_tr(table) # <<>> THEN ThTexts(select_tr(table)[1])
        ELSE <<>>

\* line 216: {h: i for i, h in enumerate(headers)}; a later column wins
build_idx(headers) ==
    [h \in Range(headers) |-> SetMax({i \in 1..Len(headers) : headers[i] = h}) - 1]

\* lines 222-224
select_rows(table) ==
    LET body == Flatten([i \in 1..Len(SelectSeq(table, IsTbody)) |->
                             SelectSeq(table, IsTbody)[i].rows])
    IN  IF body # <<>> THEN body
        ELSE IF select_tr(table) # <<>> THEN Tail(select_tr(table))
        ELSE <<>>

URL == <<"h","t","t","p","s",":","/","/","t","o","t",".","w","i","k","i","/","w","i","k","i","/","C","a","r","d","s">>

\* requests.compat.urljoin(URL, src) for an absolute, a root-relative and a
\* relative src
urljoin(src) ==
    IF Contains(src, <<":","/","/">>) THEN src
    ELSE IF src # <<>> /\ Head(src) = "/" THEN <<"h","t","t","p","s",":","/","/","t","o","t",".","w","i","k","i">> \o src
    ELSE <<"h","t","t","p","s",":","/","/","t","o","t",".","w","i","k","i","/","w","i","k","i","/">> \o src

IsSafeChar(c) == c \in AsciiLetters \cup Digits \cup {"_", "-"}

\* re.sub(r'[^a-zA-Z0-9_-]+', "_", s): each run of other characters becomes one _
RECURSIVE SafeSub(_)
SafeSub(s) ==
    IF s = <<>> THEN <<>>
    ELSE IF IsSafeChar(Head(s)) THEN <<Head(s)>> \o SafeSub(Tail(s))
    ELSE IF Len(s) > 1 /\ ~IsSafeChar(s[2]) THEN SafeSub(Tail(s))
    ELSE <<"_">> \o SafeSub(Tail(s))

safe_name(character, card) == SafeSub(character \o <<"_">> \o card \o <<".","p","n","g">>)

\* tds[idx[h]]: what the subscripts raise, if anything
Subscript(index, tds, h) ==
    IF h \notin DOMAIN index THEN "KeyError"
    ELSE IF index[h] + 1 > Len(tds) THEN "IndexError"
    ELSE "ok"

\* the first of the subscripts for the headers hs that raises
RECURSIVE FirstRaise(_, _, _)
FirstRaise(index, tds, hs) ==
    IF hs = <<>> THEN "ok"
    ELSE IF Subscript(index, tds, Head(hs)) # "ok" THEN Subscript(index, tds, Head(hs))
    ELSE FirstRaise(index, tds, Tail(hs))

NetError(net) == IF net = "timeout" THEN "Timeout" ELSE "ConnectionError"

\* lines 227-264, the body of the loop for the row tr (the r-th of rows), when
\* requests.get does net and the paths in fs exist: whether the row is skipped,
\* appended as a record or ends the run with an exception
process_row(tr, r, index, net, fs) ==
    LET tds == SelectSeq(tr, IsTd)
        skip == [outcome |-> "skipped", error |-> "none", fs |-> fs,
                 requests |-> <<>>, record |-> <<>>]
        raise(e) == [outcome |-> "raised", error |-> e, fs |-> fs,
                     requests |-> <<>>, record |-> <<>>]
    IN  IF Len(tds) < Cardinality(DOMAIN index) THEN skip
        ELSE IF Subscript(index, tds, "Name") # "ok"
             THEN raise(Subscript(index, tds, "Name"))
        ELSE
        LET name_cell == tds[index["Name"] + 1]
            parsed == parse_name(extract_text(name_cell))
            character == parsed[1]
            card == parsed[2]
        IN  IF card = <<>> THEN skip
            ELSE IF FirstRaise(index, tds, <<"Rarity", "Attribute", "Max Skill(s)">>) # "ok"
                 THEN raise(FirstRaise(index, tds, <<"Rarity", "Attribute", "Max Skill(s)">>))
            ELSE
            LET first_sk == extract_first_skill(tds[index["Max Skill(s)"] + 1])
                has_img == name_cell.img # NoImg /\ name_cell.img.src # <<>>
                icon_url == IF has_img THEN urljoin(name_cell.img.src) ELSE None
                dl == download_icon(icon_url, safe_name(character, card), net, fs)
                rec == [card |-> card,
                        character |-> character,
                        rarity |-> rarity_from_cell(tds[index["Rarity"] + 1]),
                        attribute |-> extract_text(tds[index["Attribute"] + 1]),
                        first_skill |-> first_sk,
                        first_skill_icon |-> extract_first_skill_icon(first_sk),
                        first_skill_display_name |->
                            extract_first_skill_display_name(first_sk),
                        icon_url |-> icon_url,
                        local_path |-> IF has_img THEN dl.ret ELSE None,
                        row |-> r]
            IN  IF has_img /\ dl.raised
                THEN [outcome |-> "raised", error |-> NetError(net), fs |-> fs,
                      requests |-> <<[url |-> dl.request, net |-> net]>>,
                      record |-> <<>>]
                ELSE [outcome |-> "record", error |-> "none",
                      fs |-> IF has_img THEN dl.fs ELSE fs,
                      requests |-> IF has_img
                                   THEN <<[url |-> dl.request, net |-> net]>> ELSE <<>>,
                      record |-> <<rec>>]

(***************************************************************************)
(* The pages the model draws                                               *)
(***************************************************************************)
H6 == <<"Name", "Rarity", "Attribute", "Max Influence", "Max Defense", "Max Skill(s)">>

\* an extra column, and another order
H7 == <<"Rarity", "Name", "Attribute", "Obtained", "Max Influence", "Max Defense",
        "Max Skill(s)">>

\* "Max Skill(s)" is missing
H5 == <<"Name", "Rarity", "Attribute", "Max Influence", "Max Defense">>

\* a header name that occurs twice
HDup == <<"Name", "Name", "Rarity", "Attribute", "Max Influence", "Max Defense",
          "Max Skill(s)">>

\* no required header at all
HOther == <<"Event", "Date">>

HeaderRow(hs) == [i \in 1..Len(hs) |-> Th(hs[i])]

CaptionRow == <<Td(<<<<"C","a","r","d","s">>>>, NoImg, <<>>)>>

\* what a data row is like: how many cells it has, whether its name carries a
\* quoted card title, and whether its Name cell holds an icon
RowSpecs ==
    {[cells |-> "full", title |-> TRUE, icon |-> TRUE],
     [cells |-> "six", title |-> TRUE, icon |-> FALSE],
     [cells |-> "short", title |-> TRUE, icon |-> TRUE],
     [cells |-> "full", title |-> FALSE, icon |-> FALSE]}

\* the cell of a data row under the header h
DataCell(h, spec) ==
    CASE h = "Name" ->
           Td(IF spec.title THEN <<<<"A"," ">>, <<QUOTE,"b",QUOTE>>>> ELSE <<<<" ","A">>>>,
              IF spec.icon THEN [src |-> <<"/","i","/","A",".","p","n","g">>, alt |-> <<>>] ELSE NoImg,
              <<>>)
      [] h = "Rarity" -> Td(<<>>, [src |-> <<"/","r",".","p","n","g">>, alt |-> <<" ","R">>], <<>>)
      [] h = "Attribute" -> Td(<<<<"L">>>>, NoImg, <<>>)
      [] h = "Max Skill(s)" -> Td(<<<<"a"," ","γ"," ","I">>, <<"x">>>>, NoImg, <<<<"a"," ","γ"," ","I">>>>)
      [] OTHER -> Td(<<<<"9">>>>, NoImg, <<>>)

\* the data row that spec describes in a table whose columns are hs
DataRow(hs, spec) ==
    LET n == CASE spec.cells = "full" -> Len(hs)
               [] spec.cells = "six" -> Cardinality(required)
               [] spec.cells = "short" -> Cardinality(required) - 1
    IN  [i \in 1..n |-> DataCell(IF i <= Len(hs) THEN hs[i] ELSE "", spec)]

DataRows(hs, specs) == [i \in 1..Len(specs) |-> DataRow(hs, specs[i])]

Layouts == {"thead", "tbody", "plain", "caption_thead", "caption_row", "two_theads"}

\* a table with the header row hs and the data rows, laid out as layout says
MkTable(layout, hs, data) ==
    CASE layout = "thead" ->
           <<[kind |-> "thead", rows |-> <<HeaderRow(hs)>>],
             [kind |-> "tbody", rows |-> data]>>
      [] layout = "tbody" ->
           <<[kind |-> "tbody", rows |-> <<HeaderRow(hs)>> \o data]>>
      [] layout = "plain" ->
           <<[kind |-> "table", rows |-> <<HeaderRow(hs)>> \o data]>>
      [] layout = "caption_thead" ->
           <<[kind |-> "thead", rows |-> <<CaptionRow>>],
             [kind |-> "tbody", rows |-> <<HeaderRow(hs)>> \o data]>>
      [] layout = "caption_row" ->
           <<[kind |-> "table", rows |-> <<CaptionRow>>],
             [kind |-> "tbody", rows |-> <<HeaderRow(hs)>> \o data]>>
      [] layout = "two_theads" ->
           <<[kind |-> "thead", rows |-> <<CaptionRow>>],
             [kind |-> "tbody", rows |-> <<HeaderRow(hs)>> \o data],
             [kind |-> "thead", rows |-> <<HeaderRow(HOther)>>]>>

Shape(layout, hs) == [layout |-> layout, hs |-> hs]

\* the shapes of table that main is run on
MainShapes ==
    {Shape("thead", H6), Shape("tbody", H7), Shape("plain", HDup),
     Shape("caption_thead", H6), Shape("tbody", H5)}

\* the shapes of table that the locator alone is run on
LocatorShapes == {Shape(l, hs) : l \in Layouts, hs \in {H6, H7, H5, HDup}}

SeqsUpTo(S, n) == UNION {[1..k -> S] : k \in 0..n}

MkDoc(shapes, specs) ==
    [i \in 1..Len(shapes) |-> MkTable(shapes[i].layout, shapes[i].hs,
                                      DataRows(shapes[i].hs, specs))]

MainDocs ==
    {MkDoc(shapes, specs) : shapes \in SeqsUpTo(MainShapes, MaxTables),
                            specs \in SeqsUpTo(RowSpecs, MaxRows)}

LocatorDocs ==
    {MkDoc(shapes, <<[cells |-> "full", title |-> TRUE, icon |-> FALSE]>>) :
        shapes \in SeqsUpTo(LocatorShapes, MaxDocTables)}

(***************************************************************************)
(* main, step by step                                                      *)
(***************************************************************************)
MainStart ==
    /\ pc = "start"
    /\ ti = 0
    /\ selected = 0
    /\ idx = <<>>
    /\ rows = <<>>
    /\ ri = 0
    /\ records = <<>>
    /\ row_log = <<>>
    /\ csv = Unwritten
    /\ date_updated = FALSE
    /\ error = NoError
    /\ fetch_log = <<>>
    /\ dl_calls = <<>>
    /\ NameIdle
    /\ SkillIdle

\* line 14 has made the icon directory; the run starts with it empty
Init ==
    /\ doc \in MainDocs
    /\ files = {}
    /\ MainStart

LocatorInit ==
    /\ doc \in LocatorDocs
    /\ files = {}
    /\ MainStart

\* line 17: the page is fetched and parsed, or requests.get raises
FetchPage ==
    /\ pc = "start"
    /\ \E net \in {"ok", "connection_error", "timeout"} :
         IF net = "ok"
         THEN /\ pc' = "locate"
              /\ ti' = 1
              /\ error' = error
         ELSE /\ pc' = "aborted"
              /\ ti' = ti
              /\ error' = [kind |-> NetError(net), at |-> "page"]
    /\ UNCHANGED <<doc, selected, idx, rows, ri, records, row_log, csv, date_updated,
                   nameVars, skillVars, diskVars, dl_calls>>

\* LocateStep with the raise inside the loop: the first table that does not
\* match ends the run
LocateStepRaiseEarly ==
    /\ pc = "locate"
    /\ ti <= Len(doc)
    /\ IF table_matches(doc[ti])
       THEN /\ selected' = ti
            /\ pc' = "index"
            /\ error' = error
       ELSE /\ pc' = "aborted"
            /\ error' = [kind |-> "RuntimeError", at |-> "locate"]
            /\ selected' = selected
    /\ UNCHANGED <<doc, ti, idx, rows, ri, records, row_log, csv, date_updated,
                   nameVars, skillVars, diskVars, dl_calls>>

\* lines 22-44: one turn of the loop over the tables
LocateStep ==
    /\ pc = "locate"
    /\ ti <= Len(doc)
    /\ IF table_matches(doc[ti])
       THEN /\ selected' = ti
            /\ pc' = "index"
            /\ ti' = ti
       ELSE /\ ti' = ti + 1
            /\ UNCHANGED <<selected, pc>>
    /\ UNCHANGED <<doc, idx, rows, ri, records, row_log, csv, date_updated, error,
                   nameVars, skillVars, diskVars, dl_calls>>

\* lines 46-52: no table matched
LocateFail ==
    /\ pc = "locate"
    /\ ti > Len(doc)
    /\ pc' = "aborted"
    /\ error' = [kind |-> "RuntimeError", at |-> "locate"]
    /\ UNCHANGED <<doc, ti, selected, idx, rows, ri, records, row_log, csv,
                   date_updated, nameVars, skillVars, diskVars, dl_calls>>

\* lines 205-224
BuildIndex ==
    /\ pc = "index"
    /\ idx' = build_idx(main_headers(doc[selected]))
    /\ rows' = select_rows(doc[selected])
    /\ ri' = 1
    /\ pc' = "rows"
    /\ UNCHANGED <<doc, ti, selected, records, row_log, csv, date_updated, error,
                   nameVars, skillVars, diskVars, dl_calls>>

\* lines 226-264: one turn of the loop over the rows
ProcessRow ==
    /\ pc = "rows"
    /\ ri <= Len(rows)
    /\ \E net \in NetOutcomes :
         \E res \in {process_row(rows[ri], ri, idx, net, files)} :
             /\ files' = res.fs
             /\ fetch_log' = fetch_log \o res.requests
             /\ records' = records \o res.record
             /\ row_log' = Append(row_log,
                    [outcome |-> res.outcome,
                     net |-> IF res.requests = <<>> THEN "none" ELSE net])
             /\ IF res.outcome = "raised"
                THEN /\ pc' = "aborted"
                     /\ error' = [kind |-> res.error, at |-> "row"]
                     /\ ri' = ri
                ELSE /\ ri' = ri + 1
                     /\ UNCHANGED <<pc, error>>
    /\ UNCHANGED <<doc, ti, selected, idx, rows, csv, date_updated,
                   nameVars, skillVars, dl_calls>>

\* lines 266-268
WriteCsv ==
    /\ pc = "rows"
    /\ ri > Len(rows)
    /\ csv' = records
    /\ pc' = "date"
    /\ UNCHANGED <<doc, ti, selected, idx, rows, ri, records, row_log, date_updated,
                   error, nameVars, skillVars, diskVars, dl_calls>>

\* lines 173-201: index.html is missing, lacks the date line, or is rewritten
update_html_date ==
    /\ pc = "date"
    /\ \E html \in {"missing", "no_date_line", "date_line"} :
         date_updated' = (html = "date_line")
    /\ pc' = "done"
    /\ UNCHANGED <<doc, ti, selected, idx, rows, ri, records, row_log, csv, error,
                   nameVars, skillVars, diskVars, dl_calls>>

Next ==
    \/ FetchPage
    \/ LocateStep
    \/ LocateFail
    \/ BuildIndex
    \/ ProcessRow
    \/ WriteCsv
    \/ update_html_date

Spec == Init /\ [][Next]_vars

\* get_cards_table_soup alone
LocatorNext ==
    \/ FetchPage
    \/ LocateStep
    \/ LocateFail

SpecLocator == LocatorInit /\ [][LocatorNext]_vars

(***************************************************************************)
(* Specification of parse_name over bounded name strings.                  *)
(***************************************************************************)
NameAlphabet == {"A", "b", " ", QUOTE, "\n"}

Aladdin ==
    <<"A","l","a","d","d","i","n"," ",QUOTE,"P","r","i","n","c","e"," ",
      "o","f"," ","T","h","i","e","v","e","s",QUOTE>>

NameInputs ==
    UNION {[1..n -> NameAlphabet] : n \in 0..MaxNameLen} \cup {Aladdin}

NameInit ==
    /\ name_text \in NameInputs
    /\ name_out = <<>>
    /\ npc = "input"
    /\ SkillIdle
    /\ DownloadIdle
    /\ MainIdle

ParseName ==
    /\ npc = "input"
    /\ name_out' = parse_name(name_text)
    /\ npc' = "parsed"
    /\ UNCHANGED <<name_text, skillVars, diskVars, dl_calls, mainVars>>

SpecName == NameInit /\ [][ParseName]_vars

(***************************************************************************)
(* What the claims say of the parsers, stated without the parsers.         *)
(***************************************************************************)
\* the whitespace-delimited tokens of s, as pairs <<first, last>> of positions
TokenSpans(s) ==
    {sp \in (1..Len(s)) \X (1..Len(s)) :
        /\ sp[1] <= sp[2]
        /\ \A i \in sp[1]..sp[2] : ~IsSpace(s[i])
        /\ (sp[1] = 1 \/ IsSpace(s[sp[1] - 1]))
        /\ (sp[2] = Len(s) \/ IsSpace(s[sp[2] + 1]))}

TierSpans(s) == {sp \in TokenSpans(s) : Slice(s, sp[1], sp[2]) \in RomanTokens}

TurnSpans(s) == {sp \in TokenSpans(s) : sp[1] = sp[2] /\ s[sp[1]] \in GreekLetters}

Leftmost(spans) == CHOOSE sp \in spans : \A o \in spans : sp[1] <= o[1]

ClaimedTier(s) ==
    IF TierSpans(s) = {} THEN 0
    ELSE Leftmost(TierSpans(s))[2] - Leftmost(TierSpans(s))[1] + 1

ClaimedTurns(s) ==
    IF TurnSpans(s) = {} THEN 0
    ELSE LET c == s[Leftmost(TurnSpans(s))[1]]
         IN  IF c = "α" THEN 1 ELSE IF c = "β" THEN 2 ELSE 3

NumeralOf(n) == <<"0", "1", "2", "3">>[n + 1]

ClaimedDisplay(s) ==
    LET tier == <<"T","i","e","r","=", NumeralOf(ClaimedTier(s))>>
        turn == <<" ","(", NumeralOf(ClaimedTurns(s)), " ","T","u","r","n">>
    IN  IF s = <<>> THEN <<>>
        ELSE IF ClaimedTurns(s) = 0 THEN tier
        ELSE IF ClaimedTurns(s) = 1 THEN tier \o turn \o <<")">>
        ELSE tier \o turn \o <<"s", ")">>

RECURSIVE Alnum(_)
Alnum(s) ==
    IF s = <<>> THEN <<>>
    ELSE (IF Head(s) \in AsciiLetters \cup Digits THEN <<Head(s)>> ELSE <<>>)
         \o Alnum(Tail(s))

\* s without the characters at the positions of the token spans in drop
KeepOutside(s, drop) ==
    LET keep == {i \in 1..Len(s) : \A sp \in drop : i < sp[1] \/ i > sp[2]}
        F[i \in 0..Len(s)] ==
            IF i = 0 THEN <<>>
            ELSE IF i \in keep THEN F[i - 1] \o <<s[i]>> ELSE F[i - 1]
    IN  F[Len(s)]

\* the letters and digits the claim leaves in the icon name: those of the label
\* once its "Lv. <number>" substrings and its tier token are gone (Greek letters
\* and punctuation are no letters or digits of the file name in any case). The
\* claim may be read as dropping the leftmost tier token or every tier token.
ClaimedIconLetters(s) ==
    LET t == ReSub("lv", <<" ">>, s, 1)
    IN  {Alnum(KeepOutside(t, TierSpans(t))),
         Alnum(KeepOutside(t, IF TierSpans(t) = {} THEN {} ELSE {Leftmost(TierSpans(t))}))}

IconBody(path) ==
    Slice(path, Len(SkillIconDir) + 1, Len(path) - Len(IconSuffix))

\* C9: the icon path of every non-empty raw skill label is the icon directory,
\* then the label with exactly its tier token, its turn token and its
\* "Lv. <number>" substrings removed, cleaned of punctuation and joined by
\* underscores, then "_icon.png": no other letter of the skill name is lost and
\* a tier token at the start of the label is stripped too.
C9_IconPath ==
    (spc = "icon" /\ first_skill # <<>>) =>
        /\ Len(skill_out) >= Len(SkillIconDir) + Len(IconSuffix)
        /\ Slice(skill_out, 1, Len(SkillIconDir)) = SkillIconDir
        /\ Slice(skill_out, Len(skill_out) - Len(IconSuffix) + 1, Len(skill_out)) = IconSuffix
        /\ Alnum(IconBody(skill_out)) \in ClaimedIconLetters(first_skill)
        /\ \A i \in 1..Len(IconBody(skill_out)) :
               IconBody(skill_out)[i] \in AsciiLetters \cup Digits \cup {"_"}

\* a name string that ends with a double-quoted segment
EndsWithQuotedSegment(s) ==
    /\ Len(s) >= 2
    /\ s[Len(s)] = QUOTE
    /\ Positions(s, QUOTE) \ {Len(s)} # {}

\* what the claim says parse_name returns for such a string
ClaimedName(s) ==
    LET q == SetMax(Positions(s, QUOTE) \ {Len(s)})
    IN  <<Strip(Slice(s, 1, q - 1)), Slice(s, q + 1, Len(s) - 1)>>

\* C8: for every name string that ends with a double-quoted segment, parse_name
\* returns the content of the last pair of double quotes as card title and the
\* trimmed text before that segment as character; with no quote in the string
\* the card title is empty; and 'Aladdin "Prince of Thieves"' parses to
\* ("Aladdin", "Prince of Thieves").
C8_ParseName ==
    npc = "parsed" =>
        /\ EndsWithQuotedSegment(name_text) => name_out = ClaimedName(name_text)
        /\ Positions(name_text, QUOTE) = {} => name_out[2] = <<>>
        /\ name_text = Aladdin =>
               name_out = <<Slice(Aladdin, 1, 7), Slice(Aladdin, 10, 26)>>

\* C1: two calls of download_icon in a row with the same arguments send one
\* request between them, and a call that finds a file at the computed local
\* path sends no request and returns that path, whatever the network would do.
C1_DownloadIdempotent ==
    /\ \A i \in 1..Len(dl_calls) :
         dl_calls[i].existed =>
             /\ dl_calls[i].fetches = 0
             /\ dl_calls[i].ret = LocalPath(dl_calls[i].filename)
    /\ \A i \in 1..(Len(dl_calls) - 1) :
         (/\ dl_calls[i].img_url = dl_calls[i + 1].img_url
          /\ dl_calls[i].filename = dl_calls[i + 1].filename)
             => dl_calls[i].fetches + dl_calls[i + 1].fetches = 1

(***************************************************************************)
(* What the claims say of the locator and of main                          *)
(***************************************************************************)
\* the texts of the header cells of the rows rs
HeaderCells(rs) ==
    UNION {{rs[i][j].text : j \in {c \in DOMAIN rs[i] : rs[i][c].tag = "th"}} :
              i \in DOMAIN rs}

FirstOfKind(table, kind) ==
    SetMin({i \in DOMAIN table : table[i].kind = kind})

HasKind(table, kind) == \E i \in DOMAIN table : table[i].kind = kind

\* the first non-empty of: the header cells of the thead, those of the first
\* row of the tbody, those of the first row of the table
ClaimedHeaderSet(table) ==
    LET inThead == IF HasKind(table, "thead")
                   THEN HeaderCells(table[FirstOfKind(table, "thead")].rows) ELSE {}
        body == IF HasKind(table, "tbody")
                THEN table[FirstOfKind(table, "tbody")].rows ELSE <<>>
        inBody == IF body # <<>> THEN HeaderCells(<<body[1]>>) ELSE {}
        first == {i \in DOMAIN table : table[i].rows # <<>>}
        inFirst == IF first # {} THEN HeaderCells(<<table[SetMin(first)].rows[1]>>) ELSE {}
    IN  IF inThead # {} THEN inThead ELSE IF inBody # {} THEN inBody ELSE inFirst

Accepted(table) ==
    /\ "Name" \in ClaimedHeaderSet(table)
    /\ "Rarity" \in ClaimedHeaderSet(table)
    /\ "Attribute" \in ClaimedHeaderSet(table)
    /\ "Max Influence" \in ClaimedHeaderSet(table)
    /\ "Max Defense" \in ClaimedHeaderSet(table)
    /\ "Max Skill(s)" \in ClaimedHeaderSet(table)

\* C3: the table the locator returns is the first one in document order whose
\* discovered header set holds all six required names, whatever other columns
\* it has and in whatever order; a table that lacks one of them is not returned,
\* and the locator gives up only when no table has them all.
C3_LocatorSelectsFirstMatch ==
    /\ pc = "index" =>
         /\ selected \in DOMAIN doc
         /\ Accepted(doc[selected])
         /\ \A j \in 1..(selected - 1) : ~Accepted(doc[j])
    /\ (pc = "aborted" /\ error.at = "locate") => \A j \in DOMAIN doc : ~Accepted(doc[j])

\* the second table is returned, on headers found in the first row of its
\* tbody, with an extra column, after a table that has five of the six names
C3_Witness ==
    /\ pc = "index"
    /\ selected = 2
    /\ Cardinality(ClaimedHeaderSet(doc[1]) \cap required) = 5
    /\ HasKind(doc[2], "thead")
    /\ HeaderCells(doc[2][FirstOfKind(doc[2], "thead")].rows) = {}
    /\ "Obtained" \in ClaimedHeaderSet(doc[2])

NoTableAccepted == \A j \in DOMAIN doc : ~Accepted(doc[j])

\* C4: when no table of the page has all six required headers, the run ends
\* with the locator's error once every table has been looked at, and in that
\* run no record is made, no icon is requested or stored, the CSV file is not
\* written and the date of index.html is not touched.
C4_FatalSchemaFailure ==
    NoTableAccepted =>
        /\ pc \in {"start", "locate", "aborted"}
        /\ (pc = "aborted" /\ error.at # "page") =>
               (error.kind = "RuntimeError" /\ ti = Len(doc) + 1)
        /\ records = <<>>
        /\ fetch_log = <<>>
        /\ files = {}
        /\ csv = Unwritten
        /\ ~date_updated

\* two tables, both short of a header, both looked at; the page has a data row
\* with an icon that a run that went on would have fetched
C4_Witness ==
    /\ pc = "aborted"
    /\ error.kind = "RuntimeError"
    /\ Len(doc) = 2
    /\ ti = 3
    /\ \E r \in DOMAIN select_tr(doc[1]) :
         \E c \in DOMAIN select_tr(doc[1])[r] : select_tr(doc[1])[r][c].img.src # <<>>

\* C5: when row extraction begins, main's column index has an entry for each of
\* the six required names: the headers main finds for the selected table are
\* the headers the locator matched on.
C5_IndexComplete ==
    pc = "rows" =>
        /\ required \subseteq DOMAIN idx
        /\ Range(main_headers(doc[selected])) = ClaimedHeaderSet(doc[selected])

TdCount(tr) == Cardinality({c \in DOMAIN tr : tr[c].tag = "td"})

\* the parsed card title of a row, where its Name cell can be read
NameReadable(tr) ==
    "Name" \in DOMAIN idx /\ idx["Name"] + 1 <= Len(SelectSeq(tr, IsTd))

TitleOf(tr) == parse_name(extract_text(SelectSeq(tr, IsTd)[idx["Name"] + 1]))[2]

RecordsOfRow(r) == {k \in DOMAIN records : records[k].row = r}

NetFailures == {"http_error", "connection_error", "timeout"}

\* C6: every data row with at least six cells and a non-empty parsed card title
\* yields exactly one record, without raising, whatever the extra columns or
\* duplicated header names of the table. (Rows whose icon request raised are
\* left to C2.)
C6_RowComplete ==
    \A r \in DOMAIN row_log :
        (/\ TdCount(rows[r]) >= Cardinality(required)
         /\ NameReadable(rows[r])
         /\ TitleOf(rows[r]) # <<>>
         /\ row_log[r].net \notin {"connection_error", "timeout"})
            => /\ row_log[r].outcome = "record"
               /\ Cardinality(RecordsOfRow(r)) = 1

\* C7: every record has a non-empty card name and comes from a row of at least
\* six cells; a row with fewer cells, or with an empty parsed card title, gives
\* no record and does not raise.
C7_RowSound ==
    /\ \A k \in DOMAIN records :
         /\ records[k].card # <<>>
         /\ TdCount(rows[records[k].row]) >= Cardinality(required)
    /\ \A r \in DOMAIN row_log :
         (\/ TdCount(rows[r]) < Cardinality(required)
          \/ (NameReadable(rows[r]) /\ TitleOf(rows[r]) = <<>>))
            => /\ row_log[r].outcome = "skipped"
               /\ RecordsOfRow(r) = {}

\* C2: a row whose icon request fails (an error status, no connection, or the
\* timeout) still gives its record, with no local icon path; the run goes on
\* to the later rows and to the CSV file.
C2_IconFailureNotFatal ==
    /\ \A r \in DOMAIN row_log :
         row_log[r].net \in NetFailures =>
             /\ row_log[r].outcome = "record"
             /\ \A k \in RecordsOfRow(r) : records[k].local_path = None
    /\ ~(pc = "aborted" /\ error.at = "row"
         /\ error.kind \in {"ConnectionError", "Timeout"})

====
